---- MODULE Spec2Model ----
(***************************************************************************)
(* Model of pynq/lib/rgbled.py: the RGBLED driver class.                   *)
(*                                                                         *)
(* The class keeps three class-level attributes (_mmio, _rgbleds_val,      *)
(* _rgbleds_start_index) shared by every instance, and three attributes    *)
(* per instance (index, _offset, _val).  Every method is one action.       *)
(* The instances form a bag: objects have no order, and two instances      *)
(* with equal attributes behave alike.                                     *)
(* The accessor (pynq.MMIO) is external: the model records the calls made  *)
(* to its write method and nothing else.                                   *)
(***************************************************************************)
EXTENDS Integers, Sequences, FiniteSets, Bags

\* ------------------------------------------------------------------ bounds

\* At most this many instances are constructed successfully.
MaxInst == 2

\* Inputs of the calls.  Constructions: every index with offset 0, and index 0
\* with every other offset (a dedicated-slot instance never reads its index, and
\* 0 is below every baseline but 0 itself).
Indices == {0, 1, 2}
Offsets == {-4, 0, 2, 4, 8, 16}
InitInputs == (Indices \X {0}) \cup ({0} \X (Offsets \ {0}))
\* Colors: no bit, one bit, another bit, all three bits; and the two nearest
\* integers outside range(8).
ColorInputs == {-1, 0, 2, 4, 7, 8}
DirectValues == {20}
DirectOffsets == {-4, 0, 2, 4}

\* ------------------------------------------------------- program constants

RGBLEDS_XGPIO_OFFSET == 0

\* float("inf"): larger than every index.
Inf == 1000

\* The span MMIO(base_addr, 16) binds.
MMIO_LENGTH == 16

\* ------------------------------------------------- Python integer operators

RECURSIVE Pow2(_)
Pow2(n) == IF n = 0 THEN 1 ELSE 2 * Pow2(n - 1)

\* x << s and x >> s, for x >= 0 and s >= 0.
Shl(x, s) == x * Pow2(s)
Shr(x, s) == x \div Pow2(s)

\* a & b, for a, b >= 0.
RECURSIVE BitAnd(_, _)
BitAnd(a, b) ==
    IF a = 0 \/ b = 0 THEN 0
    ELSE (IF a % 2 = 1 /\ b % 2 = 1 THEN 1 ELSE 0) + 2 * BitAnd(a \div 2, b \div 2)

\* a | b, for a, b >= 0.
RECURSIVE BitOr(_, _)
BitOr(a, b) ==
    IF a = 0 THEN b
    ELSE IF b = 0 THEN a
    ELSE (IF a % 2 = 1 \/ b % 2 = 1 THEN 1 ELSE 0) + 2 * BitOr(a \div 2, b \div 2)

\* a & ~m, for a, m >= 0 (~m has every bit set that m has clear).
RECURSIVE AndNot(_, _)
AndNot(a, m) ==
    IF a = 0 THEN 0
    ELSE (IF a % 2 = 1 /\ m % 2 = 0 THEN 1 ELSE 0) + 2 * AndNot(a \div 2, m \div 2)

\* ------------------------------------------------------------------- state

VARIABLES
    mmio,                 \* RGBLED._mmio is not None
    rgbleds_val,          \* RGBLED._rgbleds_val
    rgbleds_start_index,  \* RGBLED._rgbleds_start_index
    objs,                 \* the bag of instances: [index, offset, val, wrote]
    regs,                 \* per byte offset, the last value passed to _mmio.write
    last                  \* the last call: its arguments and its outcome

vars == <<mmio, rgbleds_val, rgbleds_start_index, objs, regs, last>>

\* An instance after __init__: self.index, self._offset, self._val; wrote is the
\* last value a dedicated-slot instance passed to _mmio.write (0 before any).
NewObj(index, offset) == [index |-> index, offset |-> offset, val |-> 0, wrote |-> 0]

\* The instances, and the bag with instance o replaced by instance p.
Objs == BagToSet(objs)
Replaced(o, p) == (objs (-) SetToBag({o})) (+) SetToBag({p})

\* The byte offsets a write can be issued at.
RegOffsets == {o \in Offsets : o >= 0 /\ o % 4 = 0}

\* self: the receiver after the call (<<>> if none, or if the call raised
\* before it used the receiver); a, b: the arguments; ret: the value returned;
\* wr: the call _mmio.write(offset, value) received, as <<offset, value>>.
NoCall == [op |-> "none", self |-> <<>>, a |-> 0, b |-> 0,
           raised |-> "none", ret |-> <<>>, wr |-> <<>>]

Init ==
    /\ mmio = FALSE
    /\ rgbleds_val = 0
    /\ rgbleds_start_index = Inf
    /\ objs = EmptyBag
    /\ regs = [o \in RegOffsets |-> 0]
    /\ last = NoCall

\* ----------------------------------------------------------------- helpers

\* __init__: the two checks of offset that raise ValueError.
InitOffsetInvalid(offset) == offset < 0 \/ offset % 4 # 0

\* _set_rgbleds_value: the two checks of offset that raise ValueError.
SetOffsetInvalid(offset) == offset < 0 \/ offset % 4 # 0

\* A variant of ColorInvalid: the upper limit off by one (color > 8).
ColorInvalidOffByOne(color) == color \notin 0 .. 8

\* on: color not in range(8).
ColorInvalid(color) == color \notin 0 .. 7

\* A variant of NewStartIndex: the offset is not looked at.
NewStartIndexAnyOffset(index, offset, start) ==
    IF index < start THEN index ELSE start

\* __init__: if offset == 0 and index < RGBLED._rgbleds_start_index.
NewStartIndex(index, offset, start) ==
    IF offset = 0 /\ index < start THEN index ELSE start

\* A variant of Shift: the position counts from index 0, not from the baseline.
ShiftAbsolute(index, start) == index * 3

\* (self.index - RGBLED._rgbleds_start_index) * 3
Shift(index, start) == (index - start) * 3

\* A variant of RgbMask: a mask of four bits (0xF).
RgbMaskWide(index, start) == Shl(15, Shift(index, start))

\* rgb_mask = 0x7 << ((self.index-RGBLED._rgbleds_start_index)*3)
RgbMask(index, start) == Shl(7, Shift(index, start))

\* A variant of OnSharedValue: the field is not cleared before the OR.
OnSharedValueNoClear(val, index, start, color) ==
    BitOr(val, Shl(color, Shift(index, start)))

\* on, shared path: new_val.
OnSharedValue(val, index, start, color) ==
    BitOr(AndNot(val, RgbMask(index, start)), Shl(color, Shift(index, start)))

\* off, shared path: new_val.
OffSharedValue(val, index, start) == AndNot(val, RgbMask(index, start))

\* on, dedicated path: self._val & ~0x7 | color.
OnLocalValue(v, color) == BitOr(AndNot(v, 7), color)

\* A variant of OffLocalValue: & 0x7 in place of & ~0x7.
OffLocalValueKeep(v) == BitAnd(v, 7)

\* off, dedicated path: self._val & ~0x7.
OffLocalValue(v) == AndNot(v, 7)

\* read, shared path.
ReadShared(val, index, start) == BitAnd(Shr(val, Shift(index, start)), 7)

\* What o.read() returns in the current state.
Read(o) ==
    IF o.offset > 0 THEN o.val
    ELSE ReadShared(rgbleds_val, o.index, rgbleds_start_index)

\* Two variants of CachedValue: the cache follows every write; the cache
\* follows none.
CachedValueAlways(value, offset, cur) == value
CachedValueNever(value, offset, cur) == cur

\* _set_rgbleds_value: if offset == 0: RGBLED._rgbleds_val = value.
CachedValue(value, offset, cur) == IF offset = 0 THEN value ELSE cur

\* How RGBLED._mmio.write(RGBLEDS_XGPIO_OFFSET + offset, value) can end: without
\* an accessor the attribute lookup fails; inside the bound span the write
\* returns; outside it the accessor, which is external, may raise or not.
WriteOutcomes(offset) ==
    IF ~mmio THEN {"AttributeError"}
    ELSE IF RGBLEDS_XGPIO_OFFSET + offset < MMIO_LENGTH THEN {"none"}
    ELSE {"none", "AccessorError"}

\* The call the accessor receives from _set_rgbleds_value(value, offset), if
\* any, as <<offset, value>>.
WriteIssued(value, offset) ==
    IF mmio /\ ~SetOffsetInvalid(offset)
    THEN <<RGBLEDS_XGPIO_OFFSET + offset, value>>
    ELSE <<>>

\* The register contents after _set_rgbleds_value(value, offset).
RegsAfter(value, offset) ==
    IF WriteIssued(value, offset) = <<>> THEN regs
    ELSE [regs EXCEPT ![WriteIssued(value, offset)[1]] = WriteIssued(value, offset)[2]]

\* The last value self has passed to the accessor, after
\* self._set_rgbleds_value(value, self._offset).
Wrote(self, value) ==
    IF WriteIssued(value, self.offset) = <<>> THEN self.wrote
    ELSE WriteIssued(value, self.offset)[2]

\* _set_rgbleds_value(value, offset), within the call recorded as `call`.
set_rgbleds_value(value, offset, call) ==
    IF SetOffsetInvalid(offset)
    THEN /\ last' = [call EXCEPT !.raised = "ValueError"]
         /\ UNCHANGED <<rgbleds_val, regs>>
    ELSE /\ rgbleds_val' = CachedValue(value, offset, rgbleds_val)
         /\ regs' = RegsAfter(value, offset)
         /\ \E r \in WriteOutcomes(offset) :
               last' = [call EXCEPT !.raised = r, !.wr = WriteIssued(value, offset)]

\* ----------------------------------------------------------------- actions

\* RGBLED(index, offset=offset).  The lookup of the physical address, which
\* is external, is taken to succeed.
RGBLED_init ==
    \E in \in InitInputs :
      LET index == in[1]  offset == in[2] IN
        /\ mmio' = TRUE
        /\ rgbleds_start_index' = NewStartIndex(index, offset, rgbleds_start_index)
        /\ IF InitOffsetInvalid(offset)
           THEN /\ objs' = objs
                /\ last' = [NoCall EXCEPT !.op = "init", !.a = index, !.b = offset,
                                          !.raised = "ValueError"]
           ELSE /\ BagCardinality(objs) < MaxInst
                /\ objs' = objs (+) SetToBag({NewObj(index, offset)})
                /\ last' = [NoCall EXCEPT !.op = "init", !.self = <<NewObj(index, offset)>>,
                                          !.a = index, !.b = offset]
        /\ UNCHANGED <<rgbleds_val, regs>>

\* The body of on(color) for the instance self; op is the method called.
OnBody(self, color, op) ==
    IF ColorInvalid(color)
    THEN /\ last' = [NoCall EXCEPT !.op = op, !.a = color, !.raised = "ValueError"]
         /\ UNCHANGED <<mmio, rgbleds_val, rgbleds_start_index, objs, regs>>
    ELSE IF self.offset > 0
    THEN LET v == OnLocalValue(self.val, color)
             after == [self EXCEPT !.val = v, !.wrote = Wrote(self, v)] IN
         /\ objs' = Replaced(self, after)
         /\ set_rgbleds_value(v, self.offset,
                              [NoCall EXCEPT !.op = op, !.self = <<after>>, !.a = color])
         /\ UNCHANGED <<mmio, rgbleds_start_index>>
    ELSE LET new_val == OnSharedValue(rgbleds_val, self.index,
                                      rgbleds_start_index, color) IN
         /\ set_rgbleds_value(new_val, 0,
                              [NoCall EXCEPT !.op = op, !.self = <<self>>, !.a = color])
         /\ UNCHANGED <<mmio, rgbleds_start_index, objs>>

\* self.on(color)
RGBLED_on == \E self \in Objs, color \in ColorInputs : OnBody(self, color, "on")

\* self.write(color): self.on(color)
RGBLED_write == \E self \in Objs, color \in ColorInputs : OnBody(self, color, "write")

\* self.off()
RGBLED_off ==
    \E self \in Objs :
        IF self.offset > 0
        THEN LET v == OffLocalValue(self.val)
                 after == [self EXCEPT !.val = v, !.wrote = Wrote(self, v)] IN
             /\ objs' = Replaced(self, after)
             /\ set_rgbleds_value(v, self.offset,
                                  [NoCall EXCEPT !.op = "off", !.self = <<after>>])
             /\ UNCHANGED <<mmio, rgbleds_start_index>>
        ELSE LET new_val == OffSharedValue(rgbleds_val, self.index,
                                           rgbleds_start_index) IN
             /\ set_rgbleds_value(new_val, 0,
                                  [NoCall EXCEPT !.op = "off", !.self = <<self>>])
             /\ UNCHANGED <<mmio, rgbleds_start_index, objs>>

\* self.read()
RGBLED_read ==
    \E self \in Objs :
        /\ last' = [NoCall EXCEPT !.op = "read", !.self = <<self>>, !.ret = <<Read(self)>>]
        /\ UNCHANGED <<mmio, rgbleds_val, rgbleds_start_index, objs, regs>>

\* RGBLED._set_rgbleds_value(value, offset), called directly.
RGBLED_set_rgbleds_value ==
    \E value \in DirectValues, offset \in DirectOffsets :
        /\ set_rgbleds_value(value, offset,
                             [NoCall EXCEPT !.op = "set", !.a = value, !.b = offset])
        /\ UNCHANGED <<mmio, rgbleds_start_index, objs>>

Next ==
    \/ RGBLED_init
    \/ RGBLED_on
    \/ RGBLED_write
    \/ RGBLED_off
    \/ RGBLED_read
    \/ RGBLED_set_rgbleds_value

Spec == Init /\ [][Next]_vars

\* ------------------------------------------------------------------ claims

\* The zero-offset (bit-packed) instances and the dedicated-slot instances.
Shared == {o \in Objs : o.offset = 0}
Slots == {o \in Objs : o.offset > 0}

\* The receiver of the last call.
Self == last.self[1]

\* The last call was on, write or off on an instance, and reached its body.
Colouring == last.op \in {"on", "write", "off"} /\ last.self # <<>>

\* C1: a successful on(color) immediately followed by read() on the same
\* instance returns color, on the bit-packed and on the dedicated path.
C1_OnThenRead ==
    (last.op = "on" /\ last.raised = "none") => Read(Self) = last.a

\* C1 witness: on(4) succeeded on a bit-packed instance whose field does not
\* start at bit 0, next to an instance that holds another color.
C1_Witness ==
    /\ last.op = "on" /\ last.raised = "none" /\ last.a = 4
    /\ Self.offset = 0
    /\ Shift(Self.index, rgbleds_start_index) > 0
    /\ Read(Self) = 4
    /\ \E b \in Objs : b # Self /\ Read(b) = 7

\* C2: on/off on a bit-packed instance leaves the read() of every bit-packed
\* instance with another index unchanged; and when index 0 reads 4, the
\* baseline is 0 and no bit outside the two lowest fields is set, on(2) on
\* index 1 makes the shared value 4 | (2 << 3), read as 4 and 2.
C2_BitFieldIsolation ==
    [][ /\ (Colouring' /\ Self'.offset = 0) =>
             \A b \in Shared : b.index # Self'.index => Read(b)' = Read(b)
        /\ ( /\ last'.op = "on" /\ last'.raised = "none" /\ last'.a = 2
             /\ Self'.offset = 0 /\ Self'.index = 1
             /\ rgbleds_start_index = 0 /\ rgbleds_val < 64
             /\ \E b \in Shared : b.index = 0 /\ Read(b) = 4 ) =>
             /\ rgbleds_val' = 20
             /\ \A b \in Shared' : /\ b.index = 0 => Read(b)' = 4
                                   /\ b.index = 1 => Read(b)' = 2
      ]_vars

\* C2 witness: index 1 was just set to 2 while index 0 holds 4: the shared
\* value is 4 | (2 << 3).
C2_Witness ==
    /\ last.op = "on" /\ last.raised = "none" /\ last.a = 2
    /\ Self.offset = 0 /\ Self.index = 1
    /\ rgbleds_start_index = 0
    /\ \E b \in Shared : b.index = 0 /\ Read(b) = 4
    /\ rgbleds_val = 20

\* C3: on/off on a dedicated-slot instance changes neither the shared value
\* nor the read() of any instance with another offset; on/off on a bit-packed
\* instance changes the read() of no dedicated-slot instance.
C3_SlotIsolation ==
    [][ Colouring' =>
          /\ Self'.offset > 0 =>
               /\ rgbleds_val' = rgbleds_val
               /\ \A b \in Objs : b.offset # Self'.offset =>
                      /\ CopiesIn(b, objs') = CopiesIn(b, objs)
                      /\ Read(b)' = Read(b)
          /\ Self'.offset = 0 =>
               \A b \in Slots : /\ CopiesIn(b, objs') = CopiesIn(b, objs)
                                /\ Read(b)' = Read(b)
      ]_vars

\* C3 witness: the instance at offset 4 was just set to 7 while the instance at
\* offset 8 holds 2 and the shared value is not 0.
C3_Witness ==
    /\ last.op = "on" /\ last.raised = "none" /\ last.a = 7
    /\ Self.offset = 4
    /\ \E b \in Slots : b.offset = 8 /\ Read(b) = 2
    /\ rgbleds_val # 0

\* C4: off() immediately followed by read() on the same instance returns 0.
C4_OffThenRead ==
    (last.op = "off" /\ last.raised = "none") => Read(Self) = 0

\* C4 witness: off() succeeded on a bit-packed instance while another
\* instance still holds a color.
C4_Witness ==
    /\ last.op = "off" /\ last.raised = "none"
    /\ Self.offset = 0
    /\ Read(Self) = 0
    /\ \E b \in Shared : Read(b) = 7

\* C5: on and write raise ValueError exactly for the colors outside 0..7;
\* construction and the direct register write raise ValueError exactly for the
\* offsets that are negative or no multiple of 4; off and read never do.
C5_InvalidRejected ==
    /\ last.op \in {"on", "write"} =>
          (last.raised = "ValueError" <=> (last.a < 0 \/ last.a > 7))
    /\ last.op \in {"init", "set"} =>
          (last.raised = "ValueError" <=> (last.b < 0 \/ last.b % 4 # 0))
    /\ last.op \in {"off", "read"} => last.raised # "ValueError"

\* C5 witness: write(8) raised ValueError while instances exist.
C5_Witness ==
    /\ last.op = "write" /\ last.a = 8 /\ last.raised = "ValueError"
    /\ Slots # {} /\ Shared # {}

\* C6: a call that raises ValueError has changed nothing: not the accessor, the
\* shared value, the baseline, the instances or the registers, and it has
\* issued no write.
C6_FailureAtomic ==
    [][ last'.raised = "ValueError" =>
          /\ UNCHANGED <<mmio, rgbleds_val, rgbleds_start_index, objs, regs>>
          /\ last'.wr = <<>>
      ]_vars

\* The smallest index among the bit-packed instances, Inf without any.
LowestSharedIndex ==
    IF Shared = {} THEN Inf
    ELSE CHOOSE m \in {o.index : o \in Shared} : \A o \in Shared : m <= o.index

\* C7: the baseline is the smallest index among the bit-packed instances
\* constructed so far (Inf without any); it never increases, and a construction
\* with a nonzero or invalid offset leaves it alone.
C7_LowestSharedIndex ==
    /\ [](rgbleds_start_index = LowestSharedIndex)
    /\ [][ /\ rgbleds_start_index' <= rgbleds_start_index
           /\ (last'.op = "init" /\ last'.b # 0) =>
                 rgbleds_start_index' = rgbleds_start_index
         ]_vars

\* C7 witness: index 2, then index 0 at offset 4 were constructed: the
\* baseline is still 2.
C7_Witness ==
    /\ last.op = "init" /\ last.raised = "none" /\ last.a = 0 /\ last.b = 4
    /\ rgbleds_start_index = 2
    /\ LowestSharedIndex = 2

\* The last call constructed a bit-packed instance whose index is below the
\* baseline that earlier bit-packed instances had set.
LowersBaseline ==
    /\ last'.op = "init" /\ last'.raised = "none" /\ last'.b = 0
    /\ rgbleds_start_index # Inf
    /\ last'.a < rgbleds_start_index

\* C8 as stated: after such a construction every earlier bit-packed instance
\* uses the bit position it used before, and reads what it read before.
C8_PositionsKept ==
    [][ LowersBaseline =>
          \A b \in Shared :
              /\ Read(b)' = Read(b)
              /\ Shift(b.index, rgbleds_start_index') = Shift(b.index, rgbleds_start_index)
      ]_vars

\* C8 amended: such a construction leaves the shared value and the registers
\* as they are and makes its index the baseline, so the bit position of every
\* earlier bit-packed instance moves up by 3 bits per index the baseline went
\* down, and its read() returns the field of the unchanged shared value at the
\* new position.
C8_PositionsMove ==
    [][ LowersBaseline =>
          /\ rgbleds_val' = rgbleds_val
          /\ regs' = regs
          /\ rgbleds_start_index' = last'.a
          /\ \A b \in Shared :
                LET old == (b.index - rgbleds_start_index) * 3
                    new == old + 3 * (rgbleds_start_index - last'.a) IN
                /\ Shift(b.index, rgbleds_start_index') = new
                /\ Read(b)' = (rgbleds_val \div Pow2(new)) % 8
      ]_vars

\* C8 witness: index 0 was constructed after index 2 had been set to 7: index
\* 2 now reads 0, and the 7 is still in the lowest bits of the shared value.
C8_Witness ==
    /\ last.op = "init" /\ last.raised = "none" /\ last.a = 0 /\ last.b = 0
    /\ rgbleds_val = 7
    /\ \E b \in Shared : b.index = 2 /\ Read(b) = 0

\* The caches agree with the writes issued: the shared value is the last value
\* written at offset 0, and the local value of every dedicated-slot instance is
\* the last value it wrote.
CachesConsistent ==
    /\ rgbleds_val = regs[0]
    /\ \A o \in Slots : o.val = o.wrote

\* C9: the caches agree with the writes at the start and after every call
\* that does not raise; read() and construction issue no write and change no
\* cache.
C9_CacheConsistency ==
    /\ CachesConsistent
    /\ [][ (CachesConsistent /\ last'.raised = "none") => CachesConsistent' ]_vars
    /\ [][ last'.op \in {"read", "init"} =>
              /\ last'.wr = <<>>
              /\ regs' = regs
              /\ rgbleds_val' = rgbleds_val
              /\ \A o \in Objs : CopiesIn(o, objs') >= CopiesIn(o, objs)
         ]_vars

\* C9 witness: a read() after writes on both paths, with both caches non-zero
\* and equal to what was written.
C9_Witness ==
    /\ last.op = "read"
    /\ rgbleds_val # 0 /\ regs[0] = rgbleds_val
    /\ \E o \in Slots : o.val # 0 /\ o.wrote = o.val /\ regs[o.offset] = o.val

\* C10: every write that on, write or off issue is at a byte offset inside the
\* 16 bytes the accessor binds.
C10_WritesInSpan ==
    (Colouring /\ last.wr # <<>>) => last.wr[1] \in {0, 4, 8, 12}


====
